---- MODULE Spec2Model ----
(***************************************************************************)
(* DailySNEC: the case-ID allocator, the CaseID parser and the retry       *)
(* selector of util.py, and the two scripts (UpdateDockets.py,             *)
(* CorrectDockets.py) that drive them against the MongoDB collection       *)
(* JVCases.Cases.                                                          *)
(*                                                                         *)
(* A Python str is a sequence of one-character strings, so that split(),   *)
(* int(), str() and zfill() are computed character by character.           *)
(***************************************************************************)
EXTENDS Integers, Sequences, FiniteSets, TLC

VARIABLES store, today, pc, ret, idx, arg

vars == <<store, today, pc, ret, idx, arg>>

(***************************************************************************)
(* Bounds of the model.                                                    *)
(***************************************************************************)
\* longest collection the fetch loop of CorrectDockets.py may grow the store to
MaxStore == 3
\* longest collection the calls of util.py and the runs of CorrectDockets.py start from
MaxInit == 2
\* last day the clock reaches (day 0 is 1 January 2025)
MaxDay == 2
\* most tokens of an input handed directly to parse_case_info
MaxTokens == 6
\* the same two lengths for the runs of UpdateDockets.py, whose batches of
\* 10 identifiers per partition make every further document far costlier
MaxUpdateInit == 2
MaxUpdateStore == 2

(***************************************************************************)
(* Python str helpers.                                                     *)
(***************************************************************************)
Digits == <<"0", "1", "2", "3", "4", "5", "6", "7", "8", "9">>

IsDigit(ch) == \E i \in 1..10 : Digits[i] = ch

DigitVal(ch) == (CHOOSE i \in 1..10 : Digits[i] = ch) - 1

\* the characters str.split() treats as separators
Whitespace == {" ", "\t", "\n"}

\* None, and a key that the document does not have
None == "None"
Missing == "<missing>"
\* a CaseID key that the document does not have
MissingID == <<Missing>>

RECURSIVE StrNat(_)
StrNat(n) ==
    IF n < 10 THEN <<Digits[n + 1]>>
    ELSE StrNat(n \div 10) \o <<Digits[(n % 10) + 1]>>

\* str(n) of an int
Str(n) == IF n < 0 THEN <<"-">> \o StrNat(0 - n) ELSE StrNat(n)

RECURSIVE Zeros(_)
Zeros(k) == IF k <= 0 THEN <<>> ELSE <<"0">> \o Zeros(k - 1)

\* s.zfill(width): pads on the left, after a leading sign
Zfill(s, width) ==
    IF Len(s) >= width THEN s
    ELSE IF Len(s) > 0 /\ s[1] \in {"+", "-"}
         THEN <<s[1]>> \o Zeros(width - Len(s)) \o Tail(s)
         ELSE Zeros(width - Len(s)) \o s

\* s.split(): the maximal runs of non-whitespace characters, in order
RECURSIVE SplitFrom(_, _, _)
SplitFrom(s, i, cur) ==
    IF i > Len(s) THEN (IF cur = <<>> THEN <<>> ELSE <<cur>>)
    ELSE IF s[i] \in Whitespace
         THEN (IF cur = <<>> THEN <<>> ELSE <<cur>>) \o SplitFrom(s, i + 1, <<>>)
         ELSE SplitFrom(s, i + 1, Append(cur, s[i]))

Split(s) == SplitFrom(s, 1, <<>>)

\* " ".join(tokens)
RECURSIVE Join(_)
Join(tokens) ==
    IF tokens = <<>> THEN <<>>
    ELSE IF Len(tokens) = 1 THEN tokens[1]
    ELSE tokens[1] \o <<" ">> \o Join(Tail(tokens))

\* the body of an int literal without its sign
Unsigned(t) == IF Len(t) > 0 /\ t[1] \in {"+", "-"} THEN Tail(t) ELSE t

\* int(t) accepts an optional sign and decimal digits, single underscores
\* allowed between digits; anything else raises ValueError
IntOk(t) ==
    LET b == Unsigned(t) IN
    /\ Len(b) > 0
    /\ IsDigit(b[1])
    /\ IsDigit(b[Len(b)])
    /\ \A i \in 1..Len(b) : IsDigit(b[i]) \/ b[i] = "_"
    /\ \A i \in 1..(Len(b) - 1) : ~(b[i] = "_" /\ b[i + 1] = "_")

RECURSIVE NatVal(_, _)
NatVal(b, acc) ==
    IF b = <<>> THEN acc
    ELSE IF b[1] = "_" THEN NatVal(Tail(b), acc)
    ELSE NatVal(Tail(b), 10 * acc + DigitVal(b[1]))

IntVal(t) ==
    IF Len(t) > 0 /\ t[1] = "-" THEN 0 - NatVal(Unsigned(t), 0)
    ELSE NatVal(Unsigned(t), 0)

(***************************************************************************)
(* Configuration of util.py and UpdateDockets.py.                          *)
(***************************************************************************)
CountyNames == {"Douglas", "Lancaster", "Sarpy"}

\* COUNTY_MAP.get(code, default)
COUNTY_MAP_get(code, default) ==
    IF code = <<"0", "1">> THEN "Douglas"
    ELSE IF code = <<"0", "2">> THEN "Lancaster"
    ELSE IF code = <<"5", "9">> THEN "Sarpy"
    ELSE default

\* inv_county_map.get(name, default), inv_county_map = {v: k for k, v in COUNTY_MAP.items()}
inv_county_map_get(name, default) ==
    IF name = "Douglas" THEN <<"0", "1">>
    ELSE IF name = "Lancaster" THEN <<"0", "2">>
    ELSE IF name = "Sarpy" THEN <<"5", "9">>
    ELSE default

\* the keys of util.BATCH_SIZE
BATCH_SIZE_keys == {"Douglas", "Lancaster", "Sarpy"}

\* util.BATCH_SIZE[county], for a county among its keys
BATCH_SIZE(county) ==
    IF county = "Douglas" THEN 30
    ELSE IF county = "Lancaster" THEN 20
    ELSE 10

\* UpdateDockets.BATCH_SIZE
UpdateBATCH_SIZE == 10

\* the width of a rendered case number
PadWidth == 7

\* "Case Summary" in html, for the pages the court site serves
PageSummary == "<html>Case Summary</html>"
PageNotFound == "<html>No cases found</html>"

ContainsMarker(html) == html = PageSummary

(***************************************************************************)
(* parse_case_info                                                         *)
(***************************************************************************)
NoVal == [CaseYear |-> 0, County |-> None, CaseNumber |-> <<>>]

\* a parser that takes the suffix for a year of the last century
ParsedYearLastCentury(year_suffix) == 1900 + IntVal(year_suffix)

\* the year of a two-digit suffix
ParsedYear(year_suffix) == 2000 + IntVal(year_suffix)

parse_case_info(case_str) ==
    LET parts == Split(case_str) IN
    IF Len(parts) < 5 THEN [err |-> "IndexError", val |-> NoVal]
    ELSE IF ~IntOk(parts[4]) THEN [err |-> "ValueError", val |-> NoVal]
    ELSE [err |-> "none",
          val |-> [CaseYear |-> ParsedYear(parts[4]),
                   County |-> COUNTY_MAP_get(parts[2], "Unknown"),
                   CaseNumber |-> parts[5]]]

\* f"D {county_code} JV {year_suffix} {num_str}" of get_next_n_cases and
\* get_new_batch, for the partition (county, year) and the case number n
FormatCaseID(county, year, n) ==
    LET year_suffix == Str(year - 2000)
        county_code == inv_county_map_get(county, <<"0", "0">>)
        num_str == Zfill(Str(n), PadWidth)
    IN <<"D", " ">> \o county_code \o <<" ", "J", "V", " ">> \o year_suffix
       \o <<" ">> \o num_str

(***************************************************************************)
(* Documents of JVCases.Cases and rows of the DataFrames.                  *)
(***************************************************************************)
\* one row of a DataFrame (df.to_dicts()), also one stored document
Row(case_id, parsed, day) ==
    [CaseID |-> case_id,
     CaseYear |-> parsed.CaseYear,
     County |-> parsed.County,
     CaseNumber |-> parsed.CaseNumber,
     TimeScraped |-> day,
     Docket |-> None,
     DateOfBirth |-> None]

\* date.today().year
YearOf(day) == 2025 + (day \div 365)

\* {"$toInt": "$CaseNumber"} succeeds on a base-10 integer string only
ToIntOk(s) ==
    LET b == Unsigned(s) IN
    /\ Len(b) > 0
    /\ \A i \in 1..Len(b) : IsDigit(b[i])

SetMax(S) == CHOOSE m \in S : \A x \in S : x <= m

\* collection.aggregate(AGG_PIPELINE): one checkpoint per (CaseYear, County)
\* group with the largest $toInt(CaseNumber) of the group
Aggregate(data) ==
    IF \E i \in 1..Len(data) : ~ToIntOk(data[i].CaseNumber)
    THEN [err |-> "OperationFailure", groups |-> {}]
    ELSE [err |-> "none",
          groups |->
            {[CaseYear |-> data[i].CaseYear,
              County |-> data[i].County,
              MaxCaseNumber |->
                SetMax({IntVal(data[j].CaseNumber) :
                          j \in {k \in 1..Len(data) :
                                   /\ data[k].CaseYear = data[i].CaseYear
                                   /\ data[k].County = data[i].County}})] :
             i \in 1..Len(data)}]

\* $group promises no order: every listing of the groups is a possible
\* list(collection.aggregate(...))
Orderings(S) ==
    {f \in [1..Cardinality(S) -> S] :
       \A i, j \in 1..Cardinality(S) : f[i] = f[j] => i = j}

\* a block that starts at the stored maximum instead of one above it
BlockFromMax(ckpt, batch_size) ==
    [k \in 1..batch_size |->
       FormatCaseID(ckpt.County, ckpt.CaseYear, ckpt.MaxCaseNumber + (k - 1))]

\* for offset in range(batch_size): the ids start_num + offset of one checkpoint
Block(ckpt, batch_size) ==
    [k \in 1..batch_size |->
       FormatCaseID(ckpt.County, ckpt.CaseYear, (ckpt.MaxCaseNumber + 1) + (k - 1))]

\* the loop of util.get_next_n_cases over the checkpoints
RECURSIVE NextRawIds(_, _)
NextRawIds(ckpts, year) ==
    IF ckpts = <<>> THEN [err |-> "none", ids |-> <<>>]
    ELSE LET ckpt == Head(ckpts) IN
         IF ckpt.CaseYear # year THEN NextRawIds(Tail(ckpts), year)
         ELSE IF ckpt.County \notin BATCH_SIZE_keys
              THEN [err |-> "KeyError", ids |-> <<>>]
              ELSE LET rest == NextRawIds(Tail(ckpts), year) IN
                   IF rest.err # "none" THEN rest
                   ELSE [err |-> "none",
                         ids |-> Block(ckpt, BATCH_SIZE(ckpt.County)) \o rest.ids]

\* the loop of UpdateDockets.get_new_batch over the checkpoints
RECURSIVE NewRawIds(_)
NewRawIds(ckpts) ==
    IF ckpts = <<>> THEN <<>>
    ELSE Block(Head(ckpts), UpdateBATCH_SIZE) \o NewRawIds(Tail(ckpts))

\* pl.col("CaseID").map_elements(parse_case_info) with the metadata columns
RECURSIVE ParsedRows(_, _)
ParsedRows(raw_ids, day) ==
    IF raw_ids = <<>> THEN [err |-> "none", rows |-> <<>>]
    ELSE LET p == parse_case_info(Head(raw_ids)) IN
         IF p.err # "none" THEN [err |-> p.err, rows |-> <<>>]
         ELSE LET rest == ParsedRows(Tail(raw_ids), day) IN
              IF rest.err # "none" THEN rest
              ELSE [err |-> "none",
                    rows |-> <<Row(Head(raw_ids), p.val, day)>> \o rest.rows]

\* util.get_next_n_cases on the listed checkpoints. The declared return_dtype
\* names CaseNumber, CaseYear and CaseType but not County: whether the County
\* column survives depends on the polars build (keep_county).
get_next_n_cases(agg_err, ckpts, day, keep_county) ==
    IF agg_err # "none" THEN [err |-> agg_err, rows |-> <<>>]
    ELSE LET raw == NextRawIds(ckpts, YearOf(day)) IN
         IF raw.err # "none" THEN [err |-> raw.err, rows |-> <<>>]
         ELSE LET df == ParsedRows(raw.ids, day) IN
              IF keep_county \/ df.err # "none" THEN df
              ELSE [err |-> "none",
                    rows |-> [i \in 1..Len(df.rows) |->
                                [df.rows[i] EXCEPT !.County = None]]]

\* UpdateDockets.get_new_batch on the listed checkpoints
get_new_batch(agg_err, ckpts, day) ==
    IF agg_err # "none" THEN [err |-> agg_err, rows |-> <<>>]
    ELSE ParsedRows(NewRawIds(ckpts), day)

\* the list comprehension of get_bounced_cases: the condition is evaluated
\* before parse_case_info, document by document, and the first exception ends it
RECURSIVE NotScraped(_)
NotScraped(data) ==
    IF data = <<>> THEN [err |-> "none", parsed |-> <<>>]
    ELSE LET d == Head(data) IN
         IF d.Docket = Missing THEN [err |-> "KeyError", parsed |-> <<>>]
         ELSE IF d.Docket = None THEN [err |-> "TypeError", parsed |-> <<>>]
         ELSE IF ContainsMarker(d.Docket) THEN NotScraped(Tail(data))
         ELSE IF d.CaseID = MissingID THEN [err |-> "KeyError", parsed |-> <<>>]
         ELSE LET p == parse_case_info(d.CaseID) IN
              IF p.err # "none" THEN [err |-> p.err, parsed |-> <<>>]
              ELSE LET rest == NotScraped(Tail(data)) IN
                   IF rest.err # "none" THEN rest
                   ELSE [err |-> "none", parsed |-> <<p.val>> \o rest.parsed]

\* a selector that hands each candidate the stamp of its stored document
get_bounced_cases_keeping_stamp(data, day) ==
    LET ns == NotScraped(data)
        Selected(d) == ~ContainsMarker(d.Docket)
    IN [err |-> ns.err,
        rows |-> [i \in 1..Len(ns.parsed) |->
                    Row(MissingID, ns.parsed[i], SelectSeq(data, Selected)[i].TimeScraped)]]

\* util.get_bounced_cases: the frame has no CaseID column
get_bounced_cases(data, day) ==
    LET ns == NotScraped(data) IN
    [err |-> ns.err,
     rows |-> [i \in 1..Len(ns.parsed) |-> Row(MissingID, ns.parsed[i], day)]]

\* case_record = case.copy(); case_record["Docket"] = html
CaseRecord(case, html) == [case EXCEPT !.Docket = html]

(***************************************************************************)
(* State.                                                                  *)
(*   store  the documents of JVCases.Cases, in insertion order             *)
(*   today  date.today(), as a day number                                  *)
(*   pc     "idle", or the fetch loop a script is in                       *)
(*   ret    the last call of an entry point: its inputs and its result     *)
(*   idx    position of the fetch loop in ret.rows                         *)
(*   arg    the argument of a direct parse_case_info call                  *)
(***************************************************************************)
NoRet ==
    [op |-> "none", data |-> <<>>, ckpts |-> <<>>, day |-> 0,
     err |-> "none", rows |-> <<>>, val |-> NoVal]

NoArg == [kind |-> "none", s |-> <<>>,
          c |-> [County |-> None, CaseYear |-> 0, CaseNumber |-> 0]]

\* sequences over S of length at most n
RECURSIVE SeqsUpTo(_, _)
SeqsUpTo(S, n) ==
    IF n = 0 THEN {<<>>}
    ELSE LET shorter == SeqsUpTo(S, n - 1) IN
         shorter \cup {Append(q, x) : q \in {r \in shorter : Len(r) = n - 1}, x \in S}

\* a document as the fetch loop stored it for a CaseID, with the given Docket
Document(case_id, docket) ==
    [Row(case_id, parse_case_info(case_id).val, 0) EXCEPT !.Docket = docket]

\* CaseIDs of the documents the collection may hold at the start
\* "D 99 JV 25 0000003": a county code COUNTY_MAP does not know
UnknownCodeID ==
    Join(<<<<"D">>, <<"9", "9">>, <<"J", "V">>, <<"2", "5">>,
           <<"0", "0", "0", "0", "0", "0", "3">>>>)

\* "D 01 JV 25 12x": parse_case_info accepts it, $toInt does not
NonNumericID ==
    Join(<<<<"D">>, <<"0", "1">>, <<"J", "V">>, <<"2", "5">>, <<"1", "2", "x">>>>)

\* "D 01 JV": a CaseID that does not parse
TruncatedID == Join(<<<<"D">>, <<"0", "1">>, <<"J", "V">>>>)

StoredIDs ==
    {FormatCaseID("Douglas", 2025, 1), FormatCaseID("Sarpy", 2025, 1),
     FormatCaseID("Douglas", 2024, 5), UnknownCodeID}

Dockets == {PageSummary, PageNotFound, None, Missing}

\* the documents the collection may hold at the start: stored by the fetch
\* loops, or put there by hand with a Docket that is pending, null or absent
InitDocuments ==
    {Document(id, d) : id \in StoredIDs, d \in Dockets}
    \cup {Document(NonNumericID, PageSummary),
          [Document(FormatCaseID("Douglas", 2025, 4), PageNotFound)
             EXCEPT !.CaseID = TruncatedID]}

Init ==
    /\ store \in SeqsUpTo(InitDocuments, MaxInit)
    /\ today = 0
    /\ pc = "idle"
    /\ ret = NoRet
    /\ idx = 1
    /\ arg = NoArg

(***************************************************************************)
(* Actions.                                                                *)
(***************************************************************************)
\* midnight
Tick ==
    /\ today < MaxDay
    /\ today' = today + 1
    /\ UNCHANGED <<store, pc, ret, idx, arg>>

\* a call of util.get_next_n_cases(MONGO_URI)
GetNextNCases ==
    /\ pc = "idle"
    /\ LET agg == Aggregate(store) IN
       \E ckpts \in Orderings(agg.groups), keep_county \in BOOLEAN :
          LET r == get_next_n_cases(agg.err, ckpts, today, keep_county) IN
          ret' = [op |-> "get_next_n_cases", data |-> store, ckpts |-> ckpts,
                  day |-> today, err |-> r.err, rows |-> r.rows, val |-> NoVal]
    /\ idx' = 1
    /\ UNCHANGED <<store, today, pc, arg>>

\* UpdateDockets.py __main__: df_new = get_new_batch(); an exception ends the script
UpdateGetNewBatch ==
    /\ pc = "idle"
    /\ LET agg == Aggregate(store) IN
       \E ckpts \in Orderings(agg.groups) :
          LET r == get_new_batch(agg.err, ckpts, today) IN
          /\ ret' = [op |-> "get_new_batch", data |-> store, ckpts |-> ckpts,
                     day |-> today, err |-> r.err, rows |-> r.rows, val |-> NoVal]
          /\ pc' = IF r.err = "none" THEN "update_scrape" ELSE "idle"
    /\ idx' = 1
    /\ UNCHANGED <<store, today, arg>>

\* one iteration of `for case in cases` of a scrape_case: the page holds the
\* marker (insert), does not (log "Not Available"), or the page times out
ScrapeIteration(loop, cap) ==
    /\ pc = loop
    /\ idx <= Len(ret.rows)
    /\ \/ /\ Len(store) < cap
          /\ ContainsMarker(PageSummary)
          /\ store' = Append(store, CaseRecord(ret.rows[idx], PageSummary))
       \/ /\ ~ContainsMarker(PageNotFound)
          /\ store' = store
       \/ store' = store
    /\ idx' = idx + 1
    /\ UNCHANGED <<today, pc, ret, arg>>

\* the loop is over: the browser is closed and the script ends
ScrapeEnd(loop) ==
    /\ pc = loop
    /\ idx > Len(ret.rows)
    /\ pc' = "idle"
    /\ UNCHANGED <<store, today, ret, idx, arg>>

UpdateScrapeCase == ScrapeIteration("update_scrape", MaxUpdateStore)

UpdateScrapeEnd == ScrapeEnd("update_scrape")

\* CorrectDockets.py __main__: df_new = get_bounced_cases(MONGO_URI)
CorrectGetBouncedCases ==
    /\ pc = "idle"
    /\ LET r == get_bounced_cases(store, today) IN
       /\ ret' = [op |-> "get_bounced_cases", data |-> store, ckpts |-> <<>>,
                  day |-> today, err |-> r.err, rows |-> r.rows, val |-> NoVal]
       /\ pc' = IF r.err = "none" THEN "correct_scrape" ELSE "idle"
    /\ idx' = 1
    /\ UNCHANGED <<store, today, arg>>

CorrectScrapeCase == ScrapeIteration("correct_scrape", MaxStore)

CorrectScrapeEnd == ScrapeEnd("correct_scrape")

(***************************************************************************)
(* The allocators as functions of the collection and the date.             *)
(***************************************************************************)
\* 1 January 2025 and 1 January 2026
SampleDays == {0, 365}

InitAlloc ==
    /\ store \in SeqsUpTo(InitDocuments, MaxInit)
    /\ today \in SampleDays
    /\ pc = "idle"
    /\ ret = NoRet
    /\ idx = 1
    /\ arg = NoArg

NextAlloc == GetNextNCases \/ UpdateGetNewBatch

SpecAlloc == InitAlloc /\ [][NextAlloc]_vars

(***************************************************************************)
(* Runs of CorrectDockets.py.                                              *)
(***************************************************************************)
NextRetry ==
    \/ Tick
    \/ CorrectGetBouncedCases
    \/ CorrectScrapeCase
    \/ CorrectScrapeEnd

SpecRetry == Init /\ [][NextRetry]_vars

(***************************************************************************)
(* Runs of UpdateDockets.py.                                               *)
(***************************************************************************)
\* the partition and case number a document is filed under
Identity(d) ==
    [County |-> d.County, CaseYear |-> d.CaseYear, CaseNumber |-> IntVal(d.CaseNumber)]

\* no two documents of a partition share a case number
NoDuplicates(data) ==
    \A i, j \in 1..Len(data) : Identity(data[i]) = Identity(data[j]) => i = j

\* documents as the fetch loop of UpdateDockets.py stores them
UpdateDocuments ==
    {Document(id, PageSummary) :
       id \in {FormatCaseID("Douglas", 2025, 1), FormatCaseID("Douglas", 2025, 2),
               FormatCaseID("Douglas", 2024, 5), FormatCaseID("Sarpy", 2025, 1),
               UnknownCodeID}}

InitUpdate ==
    /\ store \in {q \in SeqsUpTo(UpdateDocuments, MaxUpdateInit) : NoDuplicates(q)}
    /\ today = 0
    /\ pc = "idle"
    /\ ret = NoRet
    /\ idx = 1
    /\ arg = NoArg

NextUpdate ==
    \/ UpdateGetNewBatch
    \/ UpdateScrapeCase
    \/ UpdateScrapeEnd

SpecUpdate == InitUpdate /\ [][NextUpdate]_vars

(***************************************************************************)
(* Direct calls of parse_case_info, on raw strings and on the strings the  *)
(* allocator's formatter builds.                                           *)
(***************************************************************************)
\* the tokens tried at position i of an input
TokenChoice(i) ==
    IF i = 1 THEN {<<"D">>}
    ELSE IF i = 2 THEN {<<"0", "1">>, <<"9", "9">>}
    ELSE IF i = 3 THEN {<<"J", "V">>}
    ELSE IF i = 4 THEN {<<"2", "5">>, <<"x", "x">>, <<"-", "1">>}
    ELSE IF i = 5 THEN {<<"0", "0", "0", "0", "1", "2", "3">>, <<"1", "2", "x">>}
    ELSE {<<"e", "x", "t", "r", "a">>}

RECURSIVE TokenSeqs(_)
TokenSeqs(n) ==
    IF n = 0 THEN {<<>>}
    ELSE {Append(q, t) : q \in TokenSeqs(n - 1), t \in TokenChoice(n)}

\* the tokens with sep between them and around them
RECURSIVE Spaced(_, _)
Spaced(tokens, sep) ==
    IF tokens = <<>> THEN sep
    ELSE sep \o Head(tokens) \o Spaced(Tail(tokens), sep)

SampleCounties == CountyNames \cup {"Unknown"}
SampleYears == {1999, 2000, 2009, 2025, 2100}
SampleNumbers == {0, 1, 42, 9999999, 10000000}

ParseArgs ==
    {[NoArg EXCEPT !.kind = "str", !.s = Join(q)] :
       q \in UNION {TokenSeqs(n) : n \in 0..MaxTokens}}
    \cup {[NoArg EXCEPT !.kind = "str", !.s = Spaced(q, <<"\t", " ">>)] :
            q \in UNION {TokenSeqs(n) : n \in 0..MaxTokens}}
    \cup {[NoArg EXCEPT !.kind = "id",
                        !.c = [County |-> c, CaseYear |-> y, CaseNumber |-> n]] :
            c \in SampleCounties, y \in SampleYears, n \in SampleNumbers}

InitParse ==
    /\ arg \in ParseArgs
    /\ pc = IF arg.kind = "id" THEN "format" ELSE "parse"
    /\ store = <<>>
    /\ today = 0
    /\ ret = NoRet
    /\ idx = 1

\* the f-string of the allocator, on one identifier
FormatIdentifier ==
    /\ pc = "format"
    /\ arg' = [arg EXCEPT !.s = FormatCaseID(arg.c.County, arg.c.CaseYear, arg.c.CaseNumber)]
    /\ pc' = "parse"
    /\ UNCHANGED <<store, today, ret, idx>>

\* parse_case_info(arg.s)
ParseCaseInfo ==
    /\ pc = "parse"
    /\ LET p == parse_case_info(arg.s) IN
       ret' = [NoRet EXCEPT !.op = "parse_case_info", !.err = p.err, !.val = p.val]
    /\ pc' = "parsed"
    /\ UNCHANGED <<store, today, idx, arg>>

NextParse == FormatIdentifier \/ ParseCaseInfo

SpecParse == InitParse /\ [][NextParse]_vars

(***************************************************************************)
(* Properties.                                                             *)
(***************************************************************************)
\* a document whose Docket is absent, null or lacks the marker
IsPending(d) == d.Docket \in {None, Missing} \/ ~ContainsMarker(d.Docket)

PendingDocs(data) == SelectSeq(data, IsPending)

Parses(d) == d.CaseID # MissingID /\ parse_case_info(d.CaseID).err = "none"

PendingParsable(d) == IsPending(d) /\ Parses(d)

\* the fields parse_case_info derives from a document's CaseID
Derived(d) == parse_case_info(d.CaseID).val

\* the selector's entry for a document: the fields derived from its CaseID
IsEntryFor(row, d) ==
    /\ row.County = Derived(d).County
    /\ row.CaseYear = Derived(d).CaseYear
    /\ row.CaseNumber = Derived(d).CaseNumber

\* a checkpoint the allocator is to extend: current year, configured county
Tracked(ckpt, day) == ckpt.CaseYear = YearOf(day) /\ ckpt.County \in BATCH_SIZE_keys

\* a current-year checkpoint whose county has no batch size
Untracked(ckpt, day) == ckpt.CaseYear = YearOf(day) /\ ckpt.County \notin BATCH_SIZE_keys

\* the case numbers of the emitted CaseIDs that carry the checkpoint's county
\* code and year suffix, in output order
EmittedNumbers(rows, ckpt) ==
    LET code == inv_county_map_get(ckpt.County, <<"0", "0">>)
        mine == {i \in 1..Len(rows) :
                   /\ Split(rows[i].CaseID)[2] = code
                   /\ Split(rows[i].CaseID)[4] = Str(ckpt.CaseYear - 2000)}
        Nth(S, k) == CHOOSE i \in S : Cardinality({j \in S : j < i}) = k - 1
    IN [k \in 1..Cardinality(mine) |-> Split(rows[Nth(mine, k)].CaseID)[5]]

SevenDigits(t) == Len(t) = 7 /\ \A i \in 1..Len(t) : IsDigit(t[i])

\* the block N+1 .. N+B of a checkpoint, each number on 7 digits
IsFullBlock(nums, ckpt) ==
    /\ Len(nums) = BATCH_SIZE(ckpt.County)
    /\ \A k \in 1..Len(nums) :
         SevenDigits(nums[k]) /\ IntVal(nums[k]) = ckpt.MaxCaseNumber + k

\* C1: for every current-year partition with stored maximum N and configured
\* batch size B, get_next_n_cases emits exactly B identifiers for it, numbered
\* N+1 .. N+B in increasing order, each on 7 zero-padded digits.
C1_AllocatesFullBlock ==
    ret.op = "get_next_n_cases" =>
        \A k \in 1..Len(ret.ckpts) :
            Tracked(ret.ckpts[k], ret.day) =>
                IsFullBlock(EmittedNumbers(ret.rows, ret.ckpts[k]), ret.ckpts[k])

\* C2: every identifier an allocator entry point (get_next_n_cases,
\* get_new_batch) emits belongs to a partition of the current year.
C2_OnlyCurrentYear ==
    ret.op \in {"get_next_n_cases", "get_new_batch"} =>
        \A i \in 1..Len(ret.rows) : ret.rows[i].CaseYear = YearOf(ret.day)

\* C3: on a collection whose CaseIDs all parse, get_bounced_cases returns,
\* without failing, one entry per document whose Docket is absent, null or
\* lacks "Case Summary", in order, and no entry for a document that has it.
C3_SelectsEveryPending ==
    (/\ ret.op = "get_bounced_cases"
     /\ \A i \in 1..Len(ret.data) : Parses(ret.data[i])) =>
        /\ ret.err = "none"
        /\ Len(ret.rows) = Len(PendingDocs(ret.data))
        /\ \A i \in 1..Len(ret.rows) : IsEntryFor(ret.rows[i], PendingDocs(ret.data)[i])

\* C4: parse_case_info gives back the County, the CaseYear and the CaseNumber
\* of every identifier the allocator's formatter rendered.
C4_ParseInvertsFormat ==
    (pc = "parsed" /\ arg.kind = "id") =>
        /\ ret.err = "none"
        /\ ret.val.County = arg.c.County
        /\ ret.val.CaseYear = arg.c.CaseYear
        /\ ToIntOk(ret.val.CaseNumber)
        /\ IntVal(ret.val.CaseNumber) = arg.c.CaseNumber

\* "D 59 JV 9 0000042" was built for (Sarpy, 2009, 42) and parsed back
C4_Witness ==
    /\ pc = "parsed"
    /\ arg.kind = "id"
    /\ arg.c.County = "Sarpy"
    /\ arg.c.CaseYear = 2009
    /\ arg.c.CaseNumber = 42
    /\ ret.val.CaseNumber = <<"0", "0", "0", "0", "0", "4", "2">>

\* C5: when a current-year partition's county has no configured batch size,
\* get_next_n_cases does not abort, emits nothing for that partition, and
\* every configured current-year partition still gets its full block.
C5_SkipsUntrackedCounty ==
    (/\ ret.op = "get_next_n_cases"
     /\ \E k \in 1..Len(ret.ckpts) : Untracked(ret.ckpts[k], ret.day)) =>
        /\ ret.err = "none"
        /\ \A k \in 1..Len(ret.ckpts) :
             /\ Untracked(ret.ckpts[k], ret.day) =>
                  EmittedNumbers(ret.rows, ret.ckpts[k]) = <<>>
             /\ Tracked(ret.ckpts[k], ret.day) =>
                  IsFullBlock(EmittedNumbers(ret.rows, ret.ckpts[k]), ret.ckpts[k])

Numeric(t) == Len(t) > 0 /\ \A i \in 1..Len(t) : IsDigit(t[i])

\* C6: parse_case_info returns a result exactly for the inputs of 5
\* whitespace-separated tokens with a numeric year suffix and a numeric case
\* number, and fails on every other input; an unknown county code alone
\* never fails it.
C6_RejectsMalformed ==
    (pc = "parsed" /\ arg.kind = "str") =>
        LET parts == Split(arg.s) IN
        (ret.err = "none") <=>
            (Len(parts) = 5 /\ Numeric(parts[4]) /\ Numeric(parts[5]))

\* C7: when a pending document's CaseID does not parse, get_bounced_cases
\* does not fail: it skips that document and returns, in storage order, an
\* entry for every other pending document.
C7_SkipsUnparsableCaseID ==
    (/\ ret.op = "get_bounced_cases"
     /\ \A i \in 1..Len(ret.data) : ret.data[i].Docket \notin {None, Missing}
     /\ \E i \in 1..Len(ret.data) : IsPending(ret.data[i]) /\ ~Parses(ret.data[i])) =>
        /\ ret.err = "none"
        /\ Len(ret.rows) = Len(SelectSeq(ret.data, PendingParsable))
        /\ \A i \in 1..Len(ret.rows) :
             IsEntryFor(ret.rows[i], SelectSeq(ret.data, PendingParsable)[i])

\* the documents the running fetch loop has inserted: the collection beyond
\* the snapshot its work list was computed from
InsertedAt(k) == pc = "correct_scrape" /\ k \in (Len(ret.data) + 1)..Len(store)

\* the candidate j of the work list is stamped t, and so is every document
\* the fetch loop stored from it
StampedAs(j, t) ==
    /\ ret.rows[j].TimeScraped = t
    /\ \A k \in 1..Len(store) :
         (InsertedAt(k) /\ IsEntryFor(store[k], PendingDocs(ret.data)[j])) =>
             store[k].TimeScraped = t

\* a retry selection made after the day its j-th pending document was stamped
RetriedLater(j) ==
    /\ ret.op = "get_bounced_cases"
    /\ ret.err = "none"
    /\ j \in 1..Len(ret.rows)
    /\ PendingDocs(ret.data)[j].TimeScraped < ret.day

\* C8 as stated: the candidate get_bounced_cases produces on a later day for
\* a pending document, and the document the fetch loop stores from it, carry
\* the TimeScraped of the pending document (its generation day).
C8_KeepsGenerationStamp ==
    \A j \in 1..Len(ret.rows) :
        RetriedLater(j) => StampedAs(j, PendingDocs(ret.data)[j].TimeScraped)

\* C8 amended: the candidate get_bounced_cases produces on a later day for a
\* pending document, and the document the fetch loop stores from it, carry
\* the day of the retry selection; the pending document keeps its own stamp.
C8_StampsSelectionDay ==
    \A j \in 1..Len(ret.rows) :
        RetriedLater(j) =>
            /\ StampedAs(j, ret.day)
            /\ pc = "correct_scrape" => SubSeq(store, 1, Len(ret.data)) = ret.data

\* a document stored by the fetch loop from a candidate selected after the
\* day its pending document was stamped
C8_Witness ==
    /\ RetriedLater(1)
    /\ InsertedAt(Len(store))
    /\ IsEntryFor(store[Len(store)], PendingDocs(ret.data)[1])
    /\ store[Len(store)].TimeScraped > PendingDocs(ret.data)[1].TimeScraped

\* the cases a retry has fetched with the marker: only the fetch loop of
\* CorrectDockets.py stores documents without a CaseID
RetrySucceeded(data, row) ==
    \E k \in 1..Len(data) :
        /\ data[k].CaseID = MissingID
        /\ ContainsMarker(data[k].Docket)
        /\ data[k].County = row.County
        /\ data[k].CaseYear = row.CaseYear
        /\ data[k].CaseNumber = row.CaseNumber

\* C9: once a retry of a pending case fetched content with the marker, no
\* later get_bounced_cases returns that case; and the selector deletes or
\* modifies no stored document.
C9_NoRetryAfterSuccess ==
    ret.op = "get_bounced_cases" =>
        /\ \A i \in 1..Len(ret.rows) : ~RetrySucceeded(ret.data, ret.rows[i])
        /\ Len(store) >= Len(ret.data)
        /\ SubSeq(store, 1, Len(ret.data)) = ret.data

\* C10: from a collection without duplicates, after any runs of
\* UpdateDockets.py no two documents share (County, CaseYear, CaseNumber):
\* every identifier a run emits is numbered above every document of the
\* partition its parsed row is filed under.
C10_NoDuplicateCases ==
    /\ NoDuplicates(store)
    /\ ret.op = "get_new_batch" =>
         \A i \in 1..Len(ret.rows), k \in 1..Len(ret.data) :
             (/\ ret.rows[i].County = ret.data[k].County
              /\ ret.rows[i].CaseYear = ret.data[k].CaseYear) =>
                 IntVal(ret.rows[i].CaseNumber) > IntVal(ret.data[k].CaseNumber)

\* a run computes its batch for the partition of the unknown county from a
\* collection that holds a document an earlier run stored there
C10_Witness ==
    /\ pc = "update_scrape"
    /\ ret.op = "get_new_batch"
    /\ Len(ret.rows) = UpdateBATCH_SIZE
    /\ Len(ret.data) = 2
    /\ ret.data[1].CaseID = UnknownCodeID
    /\ ret.data[2].CaseID = FormatCaseID("Unknown", 2025, 4)
    /\ ret.rows[1].CaseID = FormatCaseID("Unknown", 2025, 5)

====
